---------------------------- MODULE Spec2Model ----------------------------
(***************************************************************************)
(* Model of the Serie A dashboard (src/app.py): the page router, the       *)
(* player view show_inter_stats_app with its aggregates, the minute        *)
(* normaliser, and the goal-context classifier of spec section 4.1.        *)
(*                                                                         *)
(* Text is a sequence of one-character strings.  A cell of the CSV file    *)
(* that is empty is read by pandas.read_csv as NaN, so the empty sequence  *)
(* stands for NaN/null in every text column.                               *)
(***************************************************************************)
EXTENDS Integers, Sequences, FiniteSets, TLC

VARIABLES
    app_selection,   \* st.session_state.app_selection
    csv_file,        \* the player's CSV file: NoFile or its rows
    pc,              \* position of the running script
    page,            \* the page the last script run displayed
    status,          \* outcome of the player view: ok, no_data, exception
    player_data,     \* the DataFrame player_data of show_inter_stats_app
    columns,         \* its column names
    minute_dtype,    \* dtype read_csv inferred for the Minute column
    total_goals,     \* metric "Total Goals"
    assisted_goals,  \* metric "Assisted Goals"
    season_goals,    \* goals-per-season table
    comp_season,     \* goals per (season, competition)
    top_15_assists,  \* assist-provider ranking
    venue_goals,     \* venue split
    comp_goals,      \* goals per competition
    minute_dist,     \* minute-range histogram
    season_stats,    \* season-by-season breakdown
    arg,             \* argument of the pure function under check
    ret              \* its result

viewvars == <<total_goals, assisted_goals, season_goals, comp_season,
              top_15_assists, venue_goals, comp_goals, minute_dist,
              season_stats>>
datavars == <<player_data, columns, minute_dtype>>
fnvars == <<arg, ret>>
vars == <<app_selection, csv_file, pc, page, status, datavars, viewvars, fnvars>>

-----------------------------------------------------------------------------
(* Text helpers *)

NaN == <<>>

isna(x) == x = NaN

notna(x) == x # NaN

Digits == {"0", "1", "2", "3", "4", "5", "6", "7", "8", "9"}

DigitVal(c) ==
    CASE c = "0" -> 0 [] c = "1" -> 1 [] c = "2" -> 2 [] c = "3" -> 3
      [] c = "4" -> 4 [] c = "5" -> 5 [] c = "6" -> 6 [] c = "7" -> 7
      [] c = "8" -> 8 [] c = "9" -> 9

IsDigits(s) == Len(s) > 0 /\ \A i \in 1..Len(s) : s[i] \in Digits

RECURSIVE IntOf(_)
IntOf(s) ==
    IF s = <<>> THEN 0
    ELSE 10 * IntOf(SubSeq(s, 1, Len(s) - 1)) + DigitVal(s[Len(s)])

RECURSIVE Pow10(_)
Pow10(n) == IF n = 0 THEN 1 ELSE 10 * Pow10(n - 1)

\* All texts over alphabet A of length at most n.
RECURSIVE TextsUpTo(_, _)
TextsUpTo(A, n) ==
    IF n = 0 THEN {<<>>}
    ELSE LET shorter == TextsUpTo(A, n - 1)
         IN  shorter \cup {Append(s, c) : s \in shorter, c \in A}

-----------------------------------------------------------------------------
(* Goal-context classifier, spec section 4.1 *)

Contexts == {"OpeningGoal", "Equalizer", "GoalWhileLeading", "ConsolationGoal",
             "LeadAfterDraw", "Unknown"}

\* str.split(sep): the pieces of s between the occurrences of sep.
RECURSIVE Split(_, _)
Split(s, sep) ==
    IF \A i \in 1..Len(s) : s[i] # sep THEN <<s>>
    ELSE LET i == CHOOSE k \in 1..Len(s) :
                      s[k] = sep /\ \A j \in 1..(k - 1) : s[j] # sep
         IN  <<SubSeq(s, 1, i - 1)>> \o Split(SubSeq(s, i + 1, Len(s)), sep)

\* "team, opp = map(int, score.split(':'))" succeeds.
ParsesScore(s) ==
    LET parts == Split(s, ":")
    IN  Len(parts) = 2 /\ IsDigits(parts[1]) /\ IsDigits(parts[2])

ScoreOf(s) ==
    LET parts == Split(s, ":") IN <<IntOf(parts[1]), IntOf(parts[2])>>

\* Mutant of classify: branch 4 tests team <= opp, swallowing the level score.
classify_le(score_at_goal, final_score) ==
    IF isna(score_at_goal) \/ \A i \in 1..Len(score_at_goal) : score_at_goal[i] # ":"
    THEN "Unknown"
    ELSE IF ~ParsesScore(score_at_goal) THEN "Unknown"
    ELSE LET team == ScoreOf(score_at_goal)[1]
             opp  == ScoreOf(score_at_goal)[2]
         IN  IF team = 0 /\ opp = 0 THEN "OpeningGoal"
             ELSE IF team <= opp THEN "Equalizer"
             ELSE IF ParsesScore(final_score)
                     /\ ScoreOf(final_score)[1] < ScoreOf(final_score)[2]
                  THEN "ConsolationGoal"
                  ELSE "GoalWhileLeading"

classify(score_at_goal, final_score) ==
    \* step 1: null/empty or no colon
    IF isna(score_at_goal) \/ \A i \in 1..Len(score_at_goal) : score_at_goal[i] # ":"
    THEN "Unknown"
    \* step 2 and step 7: the integer parse fails
    ELSE IF ~ParsesScore(score_at_goal) THEN "Unknown"
    ELSE LET team == ScoreOf(score_at_goal)[1]
             opp  == ScoreOf(score_at_goal)[2]
         IN  IF team = 0 /\ opp = 0 THEN "OpeningGoal"            \* step 3
             ELSE IF team < opp THEN "Equalizer"                  \* step 4
             ELSE IF team = opp THEN "LeadAfterDraw"              \* step 5
             ELSE IF ParsesScore(final_score)                     \* step 6
                     /\ ScoreOf(final_score)[1] < ScoreOf(final_score)[2]
                  THEN "ConsolationGoal"
                  ELSE "GoalWhileLeading"

-----------------------------------------------------------------------------
(* Minute normaliser, src/app.py lines 618-619 *)

\* Mutant of str_replace: only the first occurrence is removed (count = 1).
RECURSIVE str_replace_first(_, _)
str_replace_first(s, ch) ==
    IF s = <<>> THEN <<>>
    ELSE IF Head(s) = ch THEN Tail(s)
    ELSE <<Head(s)>> \o str_replace_first(Tail(s), ch)

\* Series.str.replace(ch, "") on one cell: every occurrence of the single
\* character ch is removed; NaN stays NaN.
RECURSIVE str_replace(_, _)
str_replace(s, ch) ==
    IF s = <<>> THEN <<>>
    ELSE IF Head(s) = ch THEN str_replace(Tail(s), ch)
    ELSE <<Head(s)>> \o str_replace(Tail(s), ch)

\* A number is <<mantissa, scale>>, standing for mantissa / 10^scale, with no
\* trailing zero counted in the scale; the missing number (NaN) is <<>>.
RECURSIVE Normal(_, _)
Normal(m, k) ==
    IF k > 0 /\ m % 10 = 0 THEN Normal(m \div 10, k - 1) ELSE <<m, k>>

\* pd.to_numeric(cell, errors='coerce') on one text cell: digits with at most
\* one decimal point and at least one digit give the number, all else NaN.
to_numeric(s) ==
    LET dots   == {i \in 1..Len(s) : s[i] = "."}
        digits == str_replace(s, ".")
    IN  IF Cardinality(dots) <= 1 /\ IsDigits(digits)
        THEN LET k == IF dots = {} THEN 0
                      ELSE Len(s) - (CHOOSE i \in dots : TRUE)
             IN  Normal(IntOf(digits), k)
        ELSE NaN

\* The two str.replace calls and to_numeric of lines 618-619 on one cell.
parse_minute(raw) == to_numeric(str_replace(str_replace(raw, "'"), "+"))

-----------------------------------------------------------------------------
(* DataFrame helpers.  A DataFrame is a sequence of rows; a row is a record *)
(* of cells.  Season, Competition and Goal_assist cells are <<k>>, k the    *)
(* rank of the text in sort order; Venue and Minute cells are text.         *)

Row(s, c, v, m, a) ==
    [Season |-> s, Competition |-> c, Venue |-> v, Minute |-> m, Goal_assist |-> a]

Count(df, Test(_)) == Cardinality({i \in 1..Len(df) : Test(df[i])})

KeysOf(df, col) == {df[i][col] : i \in 1..Len(df)} \ {NaN}

\* The keys of a set in ascending order (groupby sorts its group keys).
RECURSIVE SortedKeys(_)
SortedKeys(S) ==
    IF S = {} THEN <<>>
    ELSE LET lo == CHOOSE x \in S : \A y \in S : x[1] <= y[1]
         IN  <<lo>> \o SortedKeys(S \ {lo})

\* Mutant of groupby_size: the group sizes are off by the first row of each
\* group (a count started at the second row).
groupby_size_skipfirst(df, col, name) ==
    LET keys == SortedKeys(KeysOf(df, col))
    IN  [i \in 1..Len(keys) |->
            [f \in {col, name} |->
                IF f = col THEN keys[i]
                ELSE Count(df, LAMBDA r : r[col] = keys[i]) - 1]]

\* df.groupby(col).size().reset_index(name=name): one row per key that is
\* not NaN, in ascending key order, with the number of rows of that key.
groupby_size(df, col, name) ==
    LET keys == SortedKeys(KeysOf(df, col))
    IN  [i \in 1..Len(keys) |->
            [f \in {col, name} |->
                IF f = col THEN keys[i]
                ELSE Count(df, LAMBDA r : r[col] = keys[i])]]

\* table.sort_values(col, ascending=...) on a column of distinct keys.
RECURSIVE sort_values(_, _, _)
sort_values(table, col, ascending) ==
    IF table = <<>> THEN <<>>
    ELSE LET i == CHOOSE k \in 1..Len(table) :
                      \A j \in 1..Len(table) :
                          IF ascending THEN table[k][col][1] <= table[j][col][1]
                          ELSE table[k][col][1] >= table[j][col][1]
             rest == [k \in 1..(Len(table) - 1) |->
                         IF k < i THEN table[k] ELSE table[k + 1]]
         IN  <<table[i]>> \o sort_values(rest, col, ascending)

RECURSIVE Perms(_)
Perms(S) ==
    IF S = {} THEN {<<>>}
    ELSE UNION {{<<x>> \o p : p \in Perms(S \ {x})} : x \in S}

SeqToSet(q) == {q[i] : i \in 1..Len(q)}

\* table.sort_values(by=col, ascending=False) with the default kind
\* 'quicksort', which is not stable: the rows come out in non-increasing
\* order of col, rows of equal col in an order pandas does not specify.
\* The operator gives the set of outcomes, from the set of rows.
RECURSIVE sort_values_by_count_desc(_, _)
sort_values_by_count_desc(rows, col) ==
    IF rows = {} THEN {<<>>}
    ELSE LET hi   == CHOOSE n \in {r[col] : r \in rows} :
                         \A r \in rows : n >= r[col]
             tied == {r \in rows : r[col] = hi}
         IN  {p \o q : p \in Perms(tied),
                       q \in sort_values_by_count_desc(rows \ tied, col)}

\* Mutant of head: one row too many (an off-by-one slice).
head_plus_one(table, n) == SubSeq(table, 1, IF Len(table) < n + 1 THEN Len(table) ELSE n + 1)

\* table.head(n)
head(table, n) == SubSeq(table, 1, IF Len(table) < n THEN Len(table) ELSE n)

-----------------------------------------------------------------------------
(* The aggregates of show_inter_stats_app *)

TopN == 15

\* Mutant of clean: the rows are not filtered.
clean_nothing(df) == df

\* player_data[player_data['Season'].notna()]
clean(df) == SelectSeq(df, LAMBDA r : notna(r.Season))

\* Mutant of competition_counts: counted on the rows with a parsed minute.
competition_counts_parsed(df) ==
    {[Competition |-> c,
      Goals |-> Count(df, LAMBDA r : r.Competition = c /\ notna(parse_minute(r.Minute)))] :
        c \in KeysOf(df, "Competition")}

\* Rows kept by the assist filter.  The empty text and NaN are one value
\* here (read_csv reads an empty cell as NaN), so the two conjuncts agree.
assist_filter(df) ==
    SelectSeq(df, LAMBDA r : notna(r.Goal_assist) /\ r.Goal_assist # <<>>)

\* The rankings the tab can show: [] when no row has an assist.
assist_rankings(df) ==
    LET df_filtered == assist_filter(df)
    IN  IF Len(df_filtered) > 0
        THEN LET assist_counts == groupby_size(df_filtered, "Goal_assist", "Assists")
             IN  {head(t, TopN) :
                    t \in sort_values_by_count_desc(SeqToSet(assist_counts), "Assists")}
        ELSE {<<>>}

RECURSIVE Flatten(_)
Flatten(qq) == IF qq = <<>> THEN <<>> ELSE Head(qq) \o Flatten(Tail(qq))

\* groupby(['Season', 'Competition']).size(): one row per pair of keys
\* present, neither NaN, in ascending (Season, Competition) order.
groupby_season_competition(df) ==
    LET seasons == SortedKeys(KeysOf(df, "Season"))
        comps   == SortedKeys(KeysOf(df, "Competition"))
        cell(i, j) ==
            LET n == Count(df, LAMBDA r : r.Season = seasons[i]
                                          /\ r.Competition = comps[j])
            IN  IF n = 0 THEN <<>>
                ELSE <<[Season |-> seasons[i], Competition |-> comps[j], Goals |-> n]>>
    IN  Flatten([i \in 1..Len(seasons) |->
                    Flatten([j \in 1..Len(comps) |-> cell(i, j)])])

venue_map(v) ==
    IF v = <<"H">> THEN <<"H", "o", "m", "e">>
    ELSE IF v = <<"A">> THEN <<"A", "w", "a", "y">>
    ELSE NaN

\* value_counts() of Venue, relabelled: a row per venue code present (NaN
\* dropped) with its count.  The rows are kept as a set; their order (by
\* count) is not modelled.
venue_split(df) ==
    {[Venue |-> venue_map(v), Goals |-> Count(df, LAMBDA r : r.Venue = v)] :
        v \in KeysOf(df, "Venue")}

\* value_counts().head(10) of Competition, as a set of rows; the model has
\* fewer than ten competitions, so head(10) keeps every row.
competition_counts(df) ==
    {[Competition |-> c, Goals |-> Count(df, LAMBDA r : r.Competition = c)] :
        c \in KeysOf(df, "Competition")}

bins == <<0, 15, 30, 45, 60, 75, 90, 120>>

labels == <<"0-15", "16-30", "31-45", "46-60", "61-75", "76-90", "90+">>

\* Mutant of cut: include_lowest left at its default, False.
cut_exclusive(v) ==
    LET m == v[1]
        s == Pow10(v[2])
        hit == {i \in 1..Len(labels) : bins[i] * s < m /\ m <= bins[i + 1] * s}
    IN  IF hit = {} THEN NaN ELSE <<labels[CHOOSE i \in hit : TRUE]>>

\* pd.cut(v, bins, labels, include_lowest=True), right-closed intervals:
\* the label of the bin (bins[i], bins[i+1]] holding v, the first bin
\* holding bins[1] as well; NaN when v is in no bin.
cut(v) ==
    LET m == v[1]
        s == Pow10(v[2])
        hit == {i \in 1..Len(labels) :
                   \/ bins[i] * s < m /\ m <= bins[i + 1] * s
                   \/ i = 1 /\ m = bins[1] * s}
    IN  IF hit = {} THEN NaN ELSE <<labels[CHOOSE i \in hit : TRUE]>>

with_field(r, name, val) ==
    [f \in DOMAIN r \cup {name} |-> IF f = name THEN val ELSE r[f]]

\* Lines 618-619: the column Minute_clean is added to player_data.
add_minute_clean(df) ==
    [i \in 1..Len(df) |-> with_field(df[i], "Minute_clean", parse_minute(df[i].Minute))]

\* Lines 621-635: the histogram of the rows whose Minute_clean is a number;
\* value_counts() of a categorical lists every label, in label order.
minute_histogram(df) ==
    LET minute_data == SelectSeq(df, LAMBDA r : notna(r.Minute_clean))
        range(r) == cut(r.Minute_clean)
    IN  IF Len(minute_data) > 0
        THEN [i \in 1..Len(labels) |->
                [Minute_range |-> labels[i],
                 Goals |-> Count(minute_data, LAMBDA r : range(r) = <<labels[i]>>)]]
        ELSE <<>>

\* Lines 665-672: the season-by-season breakdown.
season_breakdown(df) ==
    LET keys == SortedKeys(KeysOf(df, "Season"))
        stats == [i \in 1..Len(keys) |->
            LET total == Count(df, LAMBDA r : r.Season = keys[i] /\ notna(r.Competition))
                home  == Count(df, LAMBDA r : r.Season = keys[i] /\ r.Venue = <<"H">>)
            IN  [Season |-> keys[i],
                 Total_Goals |-> total,
                 Assisted_Goals |->
                     Count(df, LAMBDA r : r.Season = keys[i] /\ notna(r.Goal_assist)),
                 Home_Goals |-> home,
                 Away_Goals |-> total - home]]
    IN  sort_values(stats, "Season", FALSE)

-----------------------------------------------------------------------------
(* Inputs *)

MaxRows == 3

MaxBulkHead == 2

\* Sample rows of a player's file: both seasons and a missing season, both
\* venues and another code, minutes in and out of every kind of bin,
\* unparseable and missing minutes, three providers and no provider.
Rows == {
    Row(<<1>>, <<1>>, <<"H">>, <<"7", "'">>,                <<1>>),
    Row(<<1>>, <<2>>, <<"A">>, <<"4", "5", "+", "2", "'">>, <<2>>),
    Row(<<2>>, <<1>>, <<"A">>, <<"0">>,                     NaN),
    Row(<<2>>, <<1>>, <<"H">>, <<"x">>,                     <<1>>),
    Row(NaN,   <<1>>, <<"H">>, <<"1", "6", "'">>,           <<2>>),
    Row(<<2>>, NaN,   <<"N">>, NaN,                         <<3>>),
    Row(<<1>>, <<1>>, <<"A">>, <<"1", "2", "0", "'">>,      <<3>>),
    Row(<<2>>, <<2>>, <<"H">>, <<"1", "5", "'">>,           NaN),
    Row(NaN,   <<2>>, <<"A">>, <<"3", "0">>,                NaN),
    Row(<<1>>, <<2>>, <<"H">>, <<"4", ".", "5">>,           <<2>>) }

RECURSIVE SeqsUpTo(_, _)
SeqsUpTo(S, n) ==
    IF n = 0 THEN {<<>>}
    ELSE LET shorter == SeqsUpTo(S, n - 1)
         IN  shorter \cup {Append(q, x) : q \in shorter, x \in S}

\* A long tail of rows with TopN + 1 further providers, provider 3 + k with
\* k assists, so that the ranking is cut.
RECURSIVE Repeat(_, _)
Repeat(r, n) == IF n = 0 THEN <<>> ELSE <<r>> \o Repeat(r, n - 1)

RECURSIVE BulkFrom(_)
BulkFrom(k) ==
    IF k > TopN + 1 THEN <<>>
    ELSE Repeat(Row(<<1>>, <<1>>, <<"H">>, <<"7", "'">>, <<3 + k>>), k) \o BulkFrom(k + 1)

BulkRows == BulkFrom(1)

Datasets ==
    SeqsUpTo(Rows, MaxRows) \cup {h \o BulkRows : h \in SeqsUpTo(Rows, MaxBulkHead)}

CSVColumns ==
    {"Season", "Competition", "Date", "Opponent", "Venue", "Minute", "Goal_assist"}

\* The dtype pd.read_csv gives the Minute column: numeric when every cell
\* that is not empty reads as a number, object (text) otherwise and for a
\* file with no rows.
read_csv_minute_dtype(rows) ==
    IF rows # <<>> /\ \A i \in 1..Len(rows) :
                          isna(rows[i].Minute) \/ notna(to_numeric(rows[i].Minute))
    THEN "numeric"
    ELSE "object"

None == "None"

NoView ==
    /\ total_goals = 0
    /\ assisted_goals = 0
    /\ season_goals = <<>>
    /\ comp_season = <<>>
    /\ top_15_assists = <<>>
    /\ venue_goals = {}
    /\ comp_goals = {}
    /\ minute_dist = <<>>
    /\ season_stats = <<>>

NoData ==
    /\ player_data = <<>>
    /\ columns = {}
    /\ minute_dtype = "object"

NoCall == arg = <<>> /\ ret = <<>>

Init ==
    /\ app_selection = None
    /\ csv_file \in {[exists |-> FALSE, rows |-> <<>>]}
                    \cup {[exists |-> TRUE, rows |-> d] : d \in Datasets}
    /\ pc = "router"
    /\ page = "none"
    /\ status = "ok"
    /\ NoData
    /\ NoView
    /\ NoCall

-----------------------------------------------------------------------------
(* The script.  Streamlit runs it from the top on every interaction; only  *)
(* session_state survives from one run to the next.                        *)

\* Lines 690-695: the router calls the page function of app_selection.
Router ==
    /\ pc = "router"
    /\ page' = IF app_selection = None THEN "landing" ELSE app_selection
    /\ pc' = IF app_selection = "inter_stats" THEN "load" ELSE "idle"
    /\ status' = "ok"
    /\ player_data' = <<>>
    /\ columns' = {}
    /\ minute_dtype' = "object"
    /\ total_goals' = 0
    /\ assisted_goals' = 0
    /\ season_goals' = <<>>
    /\ comp_season' = <<>>
    /\ top_15_assists' = <<>>
    /\ venue_goals' = {}
    /\ comp_goals' = {}
    /\ minute_dist' = <<>>
    /\ season_stats' = <<>>
    /\ UNCHANGED <<app_selection, csv_file, fnvars>>

\* Lines 119-121: the launch button of the standings app.
LaunchStandings ==
    /\ pc = "idle" /\ page = "landing"
    /\ app_selection' = "standings"
    /\ pc' = "router"
    /\ UNCHANGED <<csv_file, page, status, datavars, viewvars, fnvars>>

\* Lines 137-139: the launch button of the Inter stats app.
LaunchInterStats ==
    /\ pc = "idle" /\ page = "landing"
    /\ app_selection' = "inter_stats"
    /\ pc' = "router"
    /\ UNCHANGED <<csv_file, page, status, datavars, viewvars, fnvars>>

\* Lines 155-157: the back button of the standings app.
BackFromStandings ==
    /\ pc = "idle" /\ page = "standings"
    /\ app_selection' = None
    /\ pc' = "router"
    /\ UNCHANGED <<csv_file, page, status, datavars, viewvars, fnvars>>

\* Mutant of BackFromInterStats: the button leads to the standings app.
BackToStandings ==
    /\ pc = "idle" /\ page = "inter_stats"
    /\ app_selection' = "standings"
    /\ pc' = "router"
    /\ UNCHANGED <<csv_file, page, status, datavars, viewvars, fnvars>>

\* Lines 390-392: the back button of the Inter stats app.
BackFromInterStats ==
    /\ pc = "idle" /\ page = "inter_stats"
    /\ app_selection' = None
    /\ pc' = "router"
    /\ UNCHANGED <<csv_file, page, status, datavars, viewvars, fnvars>>

\* Any other interaction (the player selectbox, lines 405-409) reruns the
\* script with session_state as it is.
Rerun ==
    /\ pc = "idle" /\ page = "inter_stats"
    /\ pc' = "router"
    /\ UNCHANGED <<app_selection, csv_file, page, status, datavars, viewvars, fnvars>>

\* Mutant of Load: the test for None is missing and the view goes on with
\* an empty table.
LoadWithoutNoneTest ==
    /\ pc = "load"
    /\ player_data' = csv_file.rows
    /\ columns' = CSVColumns
    /\ minute_dtype' = read_csv_minute_dtype(csv_file.rows)
    /\ pc' = "clean"
    /\ UNCHANGED <<app_selection, csv_file, page, status, viewvars, fnvars>>

\* Lines 412-442: load_player_data; None makes the view report and return.
Load ==
    /\ pc = "load"
    /\ IF csv_file.exists
       THEN /\ player_data' = csv_file.rows
            /\ columns' = CSVColumns
            /\ minute_dtype' = read_csv_minute_dtype(csv_file.rows)
            /\ pc' = "clean"
            /\ UNCHANGED status
       ELSE /\ status' = "no_data"
            /\ pc' = "idle"
            /\ UNCHANGED datavars
    /\ UNCHANGED <<app_selection, csv_file, page, viewvars, fnvars>>

\* Line 445: the rows with a season.
Clean ==
    /\ pc = "clean"
    /\ player_data' = clean(player_data)
    /\ pc' = "overview"
    /\ UNCHANGED <<app_selection, csv_file, page, status, columns, minute_dtype,
                   viewvars, fnvars>>

\* Mutant of Overview: the metric counts the cells, missing ones included.
OverviewCountsAllCells ==
    /\ pc = "overview"
    /\ total_goals' = Len(player_data)
    /\ assisted_goals' = Len(player_data)
    /\ pc' = "tab1"
    /\ UNCHANGED <<app_selection, csv_file, page, status, datavars, season_goals,
                   comp_season, top_15_assists, venue_goals, comp_goals, minute_dist,
                   season_stats, fnvars>>

\* Lines 457-470: the overview metrics.
Overview ==
    /\ pc = "overview"
    /\ total_goals' = Len(player_data)
    /\ assisted_goals' = Count(player_data, LAMBDA r : notna(r.Goal_assist))
    /\ pc' = "tab1"
    /\ UNCHANGED <<app_selection, csv_file, page, status, datavars, season_goals,
                   comp_season, top_15_assists, venue_goals, comp_goals, minute_dist,
                   season_stats, fnvars>>

\* Lines 488-512: goals per season, goals per competition and season.
Tab1 ==
    /\ pc = "tab1"
    /\ season_goals' = sort_values(groupby_size(player_data, "Season", "Goals"),
                                   "Season", TRUE)
    /\ comp_season' = groupby_season_competition(player_data)
    /\ pc' = "tab2"
    /\ UNCHANGED <<app_selection, csv_file, page, status, datavars, total_goals,
                   assisted_goals, top_15_assists, venue_goals, comp_goals,
                   minute_dist, season_stats, fnvars>>

\* Lines 535-542: the assist-provider ranking.
Tab2 ==
    /\ pc = "tab2"
    /\ top_15_assists' \in assist_rankings(player_data)
    /\ pc' = "tab3"
    /\ UNCHANGED <<app_selection, csv_file, page, status, datavars, total_goals,
                   assisted_goals, season_goals, comp_season, venue_goals, comp_goals,
                   minute_dist, season_stats, fnvars>>

\* Lines 588-635: venue split, competition split, minute histogram.  The
\* .str accessor of line 618 raises AttributeError on a numeric column.
Tab3 ==
    /\ pc = "tab3"
    /\ venue_goals' = venue_split(player_data)
    /\ comp_goals' = competition_counts(player_data)
    /\ IF minute_dtype = "object"
       THEN /\ player_data' = add_minute_clean(player_data)
            /\ columns' = columns \cup {"Minute_clean"}
            /\ minute_dist' = minute_histogram(player_data')
            /\ pc' = "tab4"
            /\ UNCHANGED status
       ELSE /\ status' = "exception"
            /\ pc' = "idle"
            /\ UNCHANGED <<player_data, columns, minute_dist>>
    /\ UNCHANGED <<app_selection, csv_file, page, minute_dtype, total_goals,
                   assisted_goals, season_goals, comp_season, top_15_assists,
                   season_stats, fnvars>>

\* Lines 654-672: the season-by-season breakdown.
Tab4 ==
    /\ pc = "tab4"
    /\ season_stats' = season_breakdown(player_data)
    /\ pc' = "idle"
    /\ UNCHANGED <<app_selection, csv_file, page, status, datavars, total_goals,
                   assisted_goals, season_goals, comp_season, top_15_assists,
                   venue_goals, comp_goals, minute_dist, fnvars>>

Next ==
    \/ Router
    \/ LaunchStandings
    \/ LaunchInterStats
    \/ BackFromStandings
    \/ BackFromInterStats
    \/ Rerun
    \/ Load
    \/ Clean
    \/ Overview
    \/ Tab1
    \/ Tab2
    \/ Tab3
    \/ Tab4

Spec == Init /\ [][Next]_vars

-----------------------------------------------------------------------------
(* The pure functions on their own: one call on an argument drawn from the *)
(* bounded texts.                                                          *)

MaxScoreLen == 3

MaxRawLen == 4

ScoreAlphabet == {"0", "1", ":", "x"}

MinuteAlphabet == {"0", "4", "5", "'", "+", ".", "x"}

MinuteExamples == {<<"9", "0", "+", "3", "'">>, <<"N", "/", "A">>}

InitCall ==
    /\ app_selection = None
    /\ csv_file = [exists |-> FALSE, rows |-> <<>>]
    /\ page = "none"
    /\ status = "ok"
    /\ NoData
    /\ NoView
    /\ ret = <<>>

InitClassify ==
    /\ InitCall
    /\ pc = "call_classify"
    /\ arg \in TextsUpTo(ScoreAlphabet, MaxScoreLen) \X TextsUpTo(ScoreAlphabet, MaxScoreLen)

Classify ==
    /\ pc = "call_classify"
    /\ ret' = <<classify(arg[1], arg[2])>>
    /\ pc' = "return_classify"
    /\ UNCHANGED <<app_selection, csv_file, page, status, datavars, viewvars, arg>>

NextClassify == Classify

SpecClassify == InitClassify /\ [][NextClassify]_vars

InitMinute ==
    /\ InitCall
    /\ pc = "call_minute"
    /\ arg \in TextsUpTo(MinuteAlphabet, MaxRawLen) \cup MinuteExamples

ParseMinute ==
    /\ pc = "call_minute"
    /\ ret' = <<parse_minute(arg)>>
    /\ pc' = "return_minute"
    /\ UNCHANGED <<app_selection, csv_file, page, status, datavars, viewvars, arg>>

NextMinute == ParseMinute

SpecMinute == InitMinute /\ [][NextMinute]_vars

-----------------------------------------------------------------------------
(* Properties *)

\* The value of a run of digits, most significant digit first.
RECURSIVE NumberOf(_)
NumberOf(s) ==
    IF s = <<>> THEN 0
    ELSE DigitVal(Head(s)) * Pow10(Len(s) - 1) + NumberOf(Tail(s))

\* The pairs <<team, opp>> a text denotes as "<digits>:<digits>": one pair
\* or none.
ScorePairs(s) ==
    {<<NumberOf(SubSeq(s, 1, i - 1)), NumberOf(SubSeq(s, i + 1, Len(s)))>> :
        i \in {k \in 1..Len(s) : /\ s[k] = ":"
                                 /\ IsDigits(SubSeq(s, 1, k - 1))
                                 /\ IsDigits(SubSeq(s, k + 1, Len(s)))}}

Lost(final) == \E p \in ScorePairs(final) : p[1] < p[2]

\* C1: classify is total and returns exactly one of the six labels: Unknown
\* when score_at_goal is null, empty, has no colon or has parts that are not
\* integers; OpeningGoal at 0:0; Equalizer when team < opp; LeadAfterDraw
\* when team = opp other than 0:0; and when team > opp, ConsolationGoal if
\* final_score parses with final_team < final_opp, else GoalWhileLeading.
C1_ClassifyCases ==
    pc = "return_classify" =>
        LET out == ret[1]
            ps  == ScorePairs(arg[1])
        IN  /\ out \in Contexts
            /\ ps = {} => out = "Unknown"
            /\ \A p \in ps :
                /\ (p[1] = 0 /\ p[2] = 0) => out = "OpeningGoal"
                /\ p[1] < p[2] => out = "Equalizer"
                /\ (p[1] = p[2] /\ p[1] # 0) => out = "LeadAfterDraw"
                /\ (p[1] > p[2] /\ Lost(arg[2])) => out = "ConsolationGoal"
                /\ (p[1] > p[2] /\ ~Lost(arg[2])) => out = "GoalWhileLeading"

\* A goal that took the lead in a match finally lost: "1:0", final "0:1".
C1_Witness ==
    /\ pc = "return_classify"
    /\ arg = <<<<"1", ":", "0">>, <<"0", ":", "1">>>>
    /\ ret = <<"ConsolationGoal">>

\* What is left of a raw minute without apostrophes and plus characters.
Remainder(raw) == SelectSeq(raw, LAMBDA c : c # "'" /\ c # "+")

\* A decimal numeral: digits around exactly one point, at least one digit.
IsDecimal(s) ==
    /\ Cardinality({i \in 1..Len(s) : s[i] = "."}) = 1
    /\ IsDigits(SelectSeq(s, LAMBDA c : c # "."))

FractionLen(s) == Len(s) - (CHOOSE i \in 1..Len(s) : s[i] = ".")

MinuteExamplesHold ==
    /\ arg = <<"4", "5", "'">> => ret[1] = <<45, 0>>
    /\ arg = <<"9", "0", "+", "3", "'">> => ret[1] = <<903, 0>>
    /\ arg = <<"N", "/", "A">> => ret[1] = NaN

\* A numeral whose value is a whole number: digits, or a decimal numeral
\* with no digit other than 0 after the point.
DenotesInteger(s) ==
    \/ IsDigits(s)
    \/ /\ IsDecimal(s)
       /\ \A i \in 1..Len(s) : i > Len(s) - FractionLen(s) => s[i] = "0"

\* C2 (as stated): the normaliser removes every apostrophe and plus and
\* returns the integer value of the remainder, or null when the remainder
\* is not an integer; "45'" gives 45, "90+3'" gives 903, "N/A" gives null.
C2_IntegerOrNull ==
    pc = "return_minute" =>
        LET rem == Remainder(arg)
        IN  /\ IsDigits(rem) => ret[1] = <<NumberOf(rem), 0>>
            /\ ~DenotesInteger(rem) => ret[1] = NaN
            /\ MinuteExamplesHold

\* C2 (amended): the normaliser removes every apostrophe and plus and
\* returns the number the remainder denotes: the integer of a run of
\* digits, the fractional number of a decimal numeral such as "4.5", and
\* null when the remainder is no numeral.
C2_NumberOrNull ==
    pc = "return_minute" =>
        LET rem == Remainder(arg)
            out == ret[1]
        IN  /\ IsDigits(rem) => out = <<NumberOf(rem), 0>>
            /\ IsDecimal(rem) =>
                /\ notna(out)
                /\ out[1] * Pow10(FractionLen(rem))
                     = NumberOf(SelectSeq(rem, LAMBDA c : c # ".")) * Pow10(out[2])
            /\ (~IsDigits(rem) /\ ~IsDecimal(rem)) => out = NaN
            /\ MinuteExamplesHold

\* A stoppage-time minute: base minute and offset run together.
C2_Witness ==
    /\ pc = "return_minute"
    /\ arg = <<"9", "0", "+", "3", "'">>
    /\ ret = <<<<903, 0>>>>

-----------------------------------------------------------------------------
(* Properties of the player view *)

Input == csv_file.rows

Seasoned(r) == r.Season # <<>>

\* The view has run to its end, or to its early return or exception.
Shown == pc = "idle" /\ page = "inter_stats"

AfterClean == pc \in {"overview", "tab1", "tab2", "tab3", "tab4"}
              \/ (Shown /\ status # "no_data")

Tab1Done == pc \in {"tab2", "tab3", "tab4"} \/ (Shown /\ status # "no_data")

Tab2Done == pc \in {"tab3", "tab4"} \/ (Shown /\ status # "no_data")

Tab3Done == pc = "tab4" \/ (Shown /\ status = "ok")

RECURSIVE SumOf(_, _)
SumOf(table, col) ==
    IF table = <<>> THEN 0 ELSE Head(table)[col] + SumOf(Tail(table), col)

ClaimedRanges ==
    <<<<0, 15>>, <<15, 30>>, <<30, 45>>, <<45, 60>>, <<60, 75>>, <<75, 90>>, <<90, 120>>>>

\* a < v <= b for the number v = <<mantissa, scale>>.
Within(v, a, b) == a * Pow10(v[2]) < v[1] /\ v[1] <= b * Pow10(v[2])

HasMinute(r) == r.Minute_clean # <<>>

\* C3 (as stated): a record with minute m is counted in the bucket (a,b] iff
\* a < m <= b, in at most one bucket, and a record with minute 0 or with a
\* minute above 120 is counted in no bucket.
C3_HalfOpenBuckets ==
    (Tab3Done /\ minute_dist # <<>>) =>
        /\ Len(minute_dist) = Len(ClaimedRanges)
        /\ \A i \in 1..Len(ClaimedRanges) :
              minute_dist[i].Goals =
                  Count(player_data, LAMBDA r :
                      HasMinute(r) /\ Within(r.Minute_clean, ClaimedRanges[i][1],
                                             ClaimedRanges[i][2]))

\* C3 (amended): a record with minute m is counted in the bucket (a,b] iff
\* a < m <= b, except that the first bucket also counts minute 0 (it is the
\* closed range [0,15]); every record is counted in at most one bucket and a
\* record with a minute above 120 is counted in none.
C3_BucketsLowestIncluded ==
    (Tab3Done /\ minute_dist # <<>>) =>
        /\ Len(minute_dist) = Len(ClaimedRanges)
        /\ \A i \in 1..Len(ClaimedRanges) :
              minute_dist[i].Goals =
                  Count(player_data, LAMBDA r :
                      /\ HasMinute(r)
                      /\ \/ Within(r.Minute_clean, ClaimedRanges[i][1],
                                   ClaimedRanges[i][2])
                         \/ i = 1 /\ r.Minute_clean[1] = 0)
        /\ SumOf(minute_dist, "Goals") =
              Count(player_data, LAMBDA r :
                  HasMinute(r) /\ (Within(r.Minute_clean, 0, 120) \/ r.Minute_clean[1] = 0))

\* A histogram over a goal at minute 0 and a goal at "45+2'", read as 452.
C3_Witness ==
    /\ Tab3Done
    /\ minute_dist # <<>>
    /\ \E i \in 1..Len(player_data) : player_data[i].Minute_clean = <<0, 0>>
    /\ \E i \in 1..Len(player_data) : player_data[i].Minute_clean = <<452, 0>>
    /\ minute_dist[1].Goals = 1
    /\ SumOf(minute_dist, "Goals") = 1

\* A minute text that is no numeral once apostrophes and pluses are gone.
Unparseable(cell) ==
    /\ cell # <<>>
    /\ ~IsDigits(Remainder(cell))
    /\ ~IsDecimal(Remainder(cell))

HasUnparsedMinute ==
    \E i \in 1..Len(Input) : Seasoned(Input[i]) /\ Unparseable(Input[i].Minute)

VenueLabel(v) == IF v = <<"H">> THEN <<"H", "o", "m", "e">> ELSE <<"A", "w", "a", "y">>

AssistCount(p) == Count(player_data, LAMBDA r : r.Goal_assist = p)

Providers == {player_data[i].Goal_assist : i \in 1..Len(player_data)} \ {<<>>}

Ranked == {top_15_assists[i].Goal_assist : i \in 1..Len(top_15_assists)}

\* C5: the assist ranking ignores the records with no assist_by, counts the
\* others per provider and returns at most N = 15 providers in
\* non-increasing order of count, no provider left out having a strictly
\* larger count than a provider included.
C5_AssistRanking ==
    Tab2Done =>
        /\ Len(top_15_assists) <= 15
        /\ Len(top_15_assists) = IF Cardinality(Providers) < 15
                                 THEN Cardinality(Providers) ELSE 15
        /\ Ranked \subseteq Providers
        /\ Cardinality(Ranked) = Len(top_15_assists)
        /\ \A i \in 1..Len(top_15_assists) :
              top_15_assists[i].Assists = AssistCount(top_15_assists[i].Goal_assist)
        /\ \A i \in 1..(Len(top_15_assists) - 1) :
              top_15_assists[i].Assists >= top_15_assists[i + 1].Assists
        /\ \A q \in Providers \ Ranked : \A i \in 1..Len(top_15_assists) :
              AssistCount(q) <= top_15_assists[i].Assists

\* A ranking cut to 15 of more providers, over rows with and without assist.
C5_Witness ==
    /\ Tab2Done
    /\ Len(top_15_assists) = 15
    /\ Cardinality(Providers) > 15
    /\ \E i \in 1..Len(player_data) : player_data[i].Goal_assist = <<>>

\* C6: among providers of equal count the order of the ranking, and the
\* providers that survive the cut, are fixed by an explicit tie-break,
\* lexicographic on the provider name, so the ranking is a function of the
\* records alone.
C6_TieBreakDetermined ==
    Tab2Done =>
        /\ \A i \in 1..(Len(top_15_assists) - 1) :
              \/ top_15_assists[i].Assists > top_15_assists[i + 1].Assists
              \/ /\ top_15_assists[i].Assists = top_15_assists[i + 1].Assists
                 /\ top_15_assists[i].Goal_assist[1] < top_15_assists[i + 1].Goal_assist[1]
        /\ \A q \in Providers \ Ranked : \A i \in 1..Len(top_15_assists) :
              \/ AssistCount(q) < top_15_assists[i].Assists
              \/ /\ AssistCount(q) = top_15_assists[i].Assists
                 /\ top_15_assists[i].Goal_assist[1] < q[1]

InputSeasons == {Input[i].Season : i \in 1..Len(Input)} \ {<<>>}

\* C7: the goals-per-season table has exactly one row per season of the
\* input, each with the number of input records of that season, in
\* ascending season order; the counts sum to the number of records that
\* have a season.
C7_GoalsPerSeason ==
    Tab1Done =>
        /\ {season_goals[i].Season : i \in 1..Len(season_goals)} = InputSeasons
        /\ Len(season_goals) = Cardinality(InputSeasons)
        /\ \A i \in 1..Len(season_goals) :
              season_goals[i].Goals =
                  Count(Input, LAMBDA r : r.Season = season_goals[i].Season)
        /\ \A i \in 1..(Len(season_goals) - 1) :
              season_goals[i].Season[1] < season_goals[i + 1].Season[1]
        /\ SumOf(season_goals, "Goals") = Count(Input, Seasoned)

\* Two seasons, one with several goals, and a record without season.
C7_Witness ==
    /\ Tab1Done
    /\ Len(season_goals) = 2
    /\ season_goals[1].Goals >= 2
    /\ \E i \in 1..Len(Input) : ~Seasoned(Input[i])

NoNullSeasonRows ==
    /\ \A i \in 1..Len(season_goals) : season_goals[i].Season # <<>>
    /\ \A i \in 1..Len(comp_season) : comp_season[i].Season # <<>>
    /\ SumOf(season_goals, "Goals") = Count(Input, Seasoned)

\* C8 (as stated): the records with no season are excluded in each
\* aggregate keyed on season, not by one global filter: such a record is
\* absent from the two season tables and still counted in the venue split.
C8_PerAggregateExclusion ==
    /\ Tab1Done => NoNullSeasonRows
    /\ Tab3Done =>
          \A v \in {<<"H">>, <<"A">>} :
              LET n == Count(Input, LAMBDA r : r.Venue = v)
              IN  n > 0 => [Venue |-> VenueLabel(v), Goals |-> n] \in venue_goals

\* C8 (amended): the records with no season are excluded by one global
\* filter before every aggregate: such a record is absent from the two
\* season tables and is not counted in the venue split either.
C8_GlobalExclusion ==
    /\ AfterClean =>
          /\ \A i \in 1..Len(player_data) : Seasoned(player_data[i])
          /\ Len(player_data) = Count(Input, Seasoned)
    /\ Tab1Done => NoNullSeasonRows
    /\ Tab3Done =>
          \A v \in {<<"H">>, <<"A">>} :
              LET n == Count(Input, LAMBDA r : Seasoned(r) /\ r.Venue = v)
              IN  /\ n > 0 => [Venue |-> VenueLabel(v), Goals |-> n] \in venue_goals
                  /\ \A row \in venue_goals : row.Venue = VenueLabel(v) => row.Goals = n

\* A venue split over a home goal with a season and one without.
C8_Witness ==
    /\ Tab3Done
    /\ \E i \in 1..Len(Input) : ~Seasoned(Input[i]) /\ Input[i].Venue = <<"H">>
    /\ [Venue |-> <<"H", "o", "m", "e">>, Goals |-> 1] \in venue_goals

\* C9: when no record is left (the file has no rows, or every row is
\* filtered out), every aggregate is empty and the render reaches no error.
C9_EmptyCollection ==
    (page = "inter_stats" /\ csv_file.exists /\ Count(Input, Seasoned) = 0) =>
        /\ status # "exception"
        /\ season_goals = <<>>
        /\ comp_season = <<>>
        /\ top_15_assists = <<>>
        /\ venue_goals = {}
        /\ minute_dist = <<>>

\* C10: computing an aggregate leaves the input table unchanged, same
\* records and same fields; the minute histogram adds no field to it.
C10_InputUnchanged ==
    AfterClean =>
        /\ columns = CSVColumns
        /\ player_data = SelectSeq(Input, Seasoned)

-----------------------------------------------------------------------------
(* Properties of the missing file, the assisted goals, the season          *)
(* breakdown and the router                                                *)

NothingComputed ==
    /\ player_data = <<>>
    /\ total_goals = 0 /\ assisted_goals = 0
    /\ season_goals = <<>> /\ comp_season = <<>> /\ top_15_assists = <<>>
    /\ venue_goals = {} /\ comp_goals = {}
    /\ minute_dist = <<>> /\ season_stats = <<>>

\* C11: when load_player_data returns None (the file does not exist) the
\* view reports that no data is available and returns before it computes a
\* metric or an aggregate; it does not crash and does not load again in
\* that render.
C11_NoDataReturnsEarly ==
    /\ [](~csv_file.exists =>
            /\ status # "exception"
            /\ pc \notin {"clean", "overview", "tab1", "tab2", "tab3", "tab4"}
            /\ NothingComputed
            /\ Shown => status = "no_data")
    /\ [][(pc = "load" /\ ~csv_file.exists) =>
            (pc' = "idle" /\ status' = "no_data")]_vars

\* The view of a player whose file is missing, after its early return.
C11_Witness ==
    /\ Shown
    /\ ~csv_file.exists
    /\ status = "no_data"

\* The untruncated count per provider, over the rows the ranking keeps.
ProviderCounts == groupby_size(assist_filter(player_data), "Goal_assist", "Assists")

\* C12: a record with no assist_by is unassisted everywhere: the metric
\* 'Assisted Goals' and the column 'Assisted Goals' of the breakdown count
\* the records the assist ranking keeps, so the metric is the sum of the
\* untruncated counts per provider.
C12_AssistedGoalsAgree ==
    /\ Tab1Done =>
          /\ assisted_goals = Len(assist_filter(player_data))
          /\ assisted_goals = SumOf(ProviderCounts, "Assists")
          /\ assisted_goals =
                Count(Input, LAMBDA r : Seasoned(r) /\ r.Goal_assist # <<>>)
    /\ (Tab2Done /\ Cardinality(Providers) <= 15) =>
          assisted_goals = SumOf(top_15_assists, "Assists")
    /\ (Shown /\ status = "ok") =>
          /\ \A i \in 1..Len(season_stats) :
                season_stats[i].Assisted_Goals =
                    Len(assist_filter(SelectSeq(player_data,
                            LAMBDA r : r.Season = season_stats[i].Season)))
          /\ SumOf(season_stats, "Assisted_Goals") = assisted_goals

\* A finished view over assisted and unassisted goals.
C12_Witness ==
    /\ Shown
    /\ status = "ok"
    /\ assisted_goals = 2
    /\ total_goals = 3
    /\ Len(top_15_assists) = 2
    /\ Len(season_stats) = 2

SeasonGoalsOf(s) ==
    LET hit == {i \in 1..Len(season_goals) : season_goals[i].Season = s}
    IN  IF hit = {} THEN 0 ELSE season_goals[CHOOSE i \in hit : TRUE].Goals

\* C13: in the season breakdown, for every season, 'Total Goals' is the
\* season's count in the goals-per-season table, 'Home Goals' the number of
\* its records with venue H and 'Away Goals' the number with venue A, also
\* with a missing competition or a venue that is neither H nor A.
C13_SeasonBreakdown ==
    (Shown /\ status = "ok") =>
        \A i \in 1..Len(season_stats) :
            LET s == season_stats[i].Season
            IN  /\ season_stats[i].Total_Goals = SeasonGoalsOf(s)
                /\ season_stats[i].Home_Goals =
                      Count(Input, LAMBDA r : r.Season = s /\ r.Venue = <<"H">>)
                /\ season_stats[i].Away_Goals =
                      Count(Input, LAMBDA r : r.Season = s /\ r.Venue = <<"A">>)

Apps == {"standings", "inter_stats"}

\* C14: app_selection is always None, "standings" or "inter_stats"; every
\* render shows the one page that matches it; and it changes only from None
\* to an app or from an app to None, never from one app to the other.
C14_PageSelection ==
    /\ [](app_selection \in {None} \cup Apps)
    /\ [](pc # "router" =>
            page = IF app_selection = None THEN "landing" ELSE app_selection)
    /\ [][app_selection' # app_selection =>
            (app_selection = None /\ app_selection' \in Apps)
            \/ (app_selection \in Apps /\ app_selection' = None)]_vars

\* The back button of the Inter stats page has just been clicked.
C14_Witness ==
    /\ app_selection = None
    /\ pc = "router"
    /\ page = "inter_stats"

=============================================================================
